---- MODULE Spec2Model ----
(***************************************************************************)
(* Model of PersistentSearchAgent (src/main.py): the LangGraph workflow    *)
(* analyze_goal -> generate_search_strategy -> execute_search ->           *)
(* validate_results -> {refine_strategy -> execute_search | finalize |END} *)
(* over one AgentState.                                                    *)
(*                                                                         *)
(* Texts (goal, titles, queries, page content) are sequences of lowercase  *)
(* words; "kw in text.lower()" is membership of the word kw.  The three    *)
(* external collaborators (planning service, search provider, crawler) are *)
(* nondeterministic: every call either raises or returns one of a small    *)
(* set of values.                                                          *)
(***************************************************************************)
EXTENDS Integers, Sequences, FiniteSets, TLC

VARIABLES
    goal,              \* AgentState.goal
    target_count,      \* AgentState.target_count (when it is a number)
    target_type,       \* Python type of target_count: "int" or "str"
    current_results,   \* AgentState.current_results
    search_queries,    \* AgentState.search_queries
    attempted_sources, \* AgentState.attempted_sources
    status,            \* AgentState.status
    iteration_count,   \* AgentState.iteration_count
    max_iterations,    \* AgentState.max_iterations
    messages,          \* AgentState.messages
    last_error,        \* AgentState.last_error
    pc,                \* the graph node that runs next, "END", or "raised"
    exc,               \* the exception that left run_agent, "none" if none
    queries_to_try,    \* _execute_search: the list the for loop walks
    qi,                \* _execute_search: number of loop iterations done
    rounds,            \* number of _execute_search calls started
    round_len,         \* len(current_results) when the current round started
    all_raised,        \* every provider call of the current round raised
    fetch_failed,      \* urls of the relevant hits of the latest
                       \* _perform_search call whose crawl raised or was empty
    skipped            \* the uniqueness test kept out a record of the latest
                       \* _perform_search call that has a url

vars == <<goal, target_count, target_type, current_results, search_queries,
          attempted_sources, status, iteration_count, max_iterations,
          messages, last_error, pc, exc, queries_to_try, qi, rounds,
          round_len, all_raised, fetch_failed, skipped>>

-----------------------------------------------------------------------------
(* Bounds of the model *)

MaxIterations == 2      \* max_iterations ranges over 1..MaxIterations
MaxQuantity == 1        \* "quantity" of the analysis ranges over -1..MaxQuantity
MaxNewQueries == 2      \* length of a query list the planning service returns

(* Program constants *)

DefaultTarget == 10     \* analysis.get("quantity", 10) and the except branch
BatchSize == 3          \* [...][:3] in _execute_search
MaxTricks == 3          \* search_tricks[:3]
MaxEnhanced == 2        \* enhanced_queries[:2]
ExcerptLen == 500       \* content[:500]

-----------------------------------------------------------------------------
(* Generic helpers *)

Min(a, b) == IF a <= b THEN a ELSE b

Take(s, n) == IF n <= 0 THEN <<>> ELSE SubSeq(s, 1, Min(n, Len(s)))

\* Python s[:n]: a negative n counts from the end.
Slice(s, n) == IF n >= 0 THEN Take(s, n) ELSE Take(s, Len(s) + n)

\* Python "x in list"
InList(x, s) == \E i \in 1..Len(s) : s[i] = x

\* Python "kw in text.lower()" on a text of words
Contains(text, kw) == \E i \in 1..Len(text) : text[i] = kw

\* Python "'a b' in text.lower()"
ContainsPhrase(text, kw1, kw2) ==
    \E i \in 1..(Len(text) - 1) : text[i] = kw1 /\ text[i + 1] = kw2

\* Python dict.get(key, default) on a record
Get(d, key, default) == IF key \in DOMAIN d THEN d[key] ELSE default

-----------------------------------------------------------------------------
(* GoalStatus *)

PENDING == "pending"
IN_PROGRESS == "in_progress"
COMPLETED == "completed"
FAILED == "failed"

GoalStatus == {PENDING, IN_PROGRESS, COMPLETED, FAILED}

-----------------------------------------------------------------------------
(* Inputs of a run *)

Goals ==
    { <<"find", "recruiter", "email", "addresses">>,
      <<"digital", "marketing", "website">>,
      <<"job", "openings">>,
      <<"python", "tutorials">> }

\* Responses of self.llm.invoke to the analysis prompt.  "text" is content
\* json.loads rejects; "list" is JSON that is no object; "object" carries
\* a quantity that is absent, an integer or a string.
Quantities ==
    {[type |-> "absent", value |-> 0], [type |-> "str", value |-> 0]}
        \cup {[type |-> "int", value |-> v] : v \in (-1)..MaxQuantity}

AnalysisResponses ==
    {[kind |-> "raise", quantity |-> [type |-> "absent", value |-> 0]],
     [kind |-> "text", quantity |-> [type |-> "absent", value |-> 0]],
     [kind |-> "list", quantity |-> [type |-> "absent", value |-> 0]]}
        \cup {[kind |-> "object", quantity |-> q] : q \in Quantities}

\* The queries the planning service proposes: a response lists the first
\* n of them, n <= MaxNewQueries, or all of them (more distinct queries
\* than one round executes); the third repeats the first.
LLMQueries == << <<"q1">>, <<"q2">>, <<"q1">>, <<"q3">>, <<"q4">> >>

\* Responses of self.llm.invoke to the strategy and refinement prompts.
\* "number" is JSON that parses but cannot be iterated.
QueryResponses ==
    {[kind |-> "raise", queries |-> <<>>],
     [kind |-> "text", queries |-> <<>>],
     [kind |-> "number", queries |-> <<>>]}
        \cup {[kind |-> "list", queries |-> Take(LLMQueries, n)] :
                    n \in (0..MaxNewQueries) \cup {Len(LLMQueries)}}

-----------------------------------------------------------------------------
(* run_agent: the initial AgentState *)

HumanMessage(content) == [type |-> "human", content |-> content]

AIMessage(content) == [type |-> "ai", content |-> content]

Init ==
    /\ goal \in Goals
    /\ max_iterations \in 1..MaxIterations
    /\ target_count = DefaultTarget
    /\ target_type = "int"
    /\ current_results = <<>>
    /\ search_queries = <<>>
    /\ attempted_sources = <<>>
    /\ status = PENDING
    /\ iteration_count = 0
    /\ messages = <<HumanMessage(goal)>>
    /\ last_error = "None"
    /\ pc = "analyze_goal"
    /\ exc = "none"
    /\ queries_to_try = <<>>
    /\ qi = 0
    /\ rounds = 0
    /\ round_len = 0
    /\ all_raised = FALSE
    /\ fetch_failed = {}
    /\ skipped = FALSE

\* An exception leaves a node: graph.astream raises out of run_agent.
Raise(e) ==
    /\ pc' = "raised"
    /\ exc' = e

-----------------------------------------------------------------------------
(* _analyze_goal *)

\* The try block of _analyze_goal: the value target_count ends with.
AnalyzedTarget(response) ==
    IF response.kind = "object"
    THEN IF response.quantity.type = "absent"
         THEN [type |-> "int", value |-> DefaultTarget]
         ELSE response.quantity
    ELSE [type |-> "int", value |-> DefaultTarget]

AnalyzeGoal ==
    /\ pc = "analyze_goal"
    /\ \E response \in AnalysisResponses :
        IF response.kind = "raise"
        THEN /\ Raise("LLMError")
             /\ UNCHANGED <<target_count, target_type, status, messages>>
        ELSE LET t == AnalyzedTarget(response)
             IN /\ target_count' = t.value
                /\ target_type' = t.type
                /\ messages' =
                     IF response.kind = "object"
                     THEN Append(messages, AIMessage(<<"Goal analyzed", t>>))
                     ELSE messages
                /\ status' = IN_PROGRESS
                /\ pc' = "generate_search_strategy"
                /\ exc' = exc
    /\ UNCHANGED <<goal, current_results, search_queries, attempted_sources,
                   iteration_count, max_iterations, last_error,
                   queries_to_try, qi, rounds, round_len, all_raised,
                   fetch_failed, skipped>>

-----------------------------------------------------------------------------
(* _generate_search_strategy and _refine_strategy *)

\* The merge as a plain extend: no "not in search_queries" test.
MergeQueries_extend(ledger, new_queries) == ledger \o new_queries

\* for query in new_queries: if query not in search_queries: append
RECURSIVE MergeQueries(_, _)
MergeQueries(ledger, new_queries) ==
    IF new_queries = <<>> THEN ledger
    ELSE MergeQueries(
            IF InList(Head(new_queries), ledger) THEN ledger
            ELSE Append(ledger, Head(new_queries)),
            Tail(new_queries))

\* The except branch of _generate_search_strategy
StrategyFallback(g) ==
    IF Contains(g, "website")
    THEN << <<"best", g[1], "websites">>,
            <<"top", g[1], "tools", "online">>,
            <<"useful", g[1], "resources">> >>
    ELSE IF Contains(g, "email")
    THEN << <<"recruiter", "email", "contacts">>,
            <<"hr", "manager", "email", "directory">>,
            <<"talent", "acquisition", "email", "list">> >>
    ELSE <<>>

\* The except branch of _refine_strategy: one query per goal term
RefineFallback(g) == [i \in 1..Len(g) |-> <<"best", g[i], "resources", "2024">>]

GeneratedQueries(ledger, response, g) ==
    IF response.kind = "list"
    THEN MergeQueries(ledger, response.queries)
    ELSE ledger \o StrategyFallback(g)

\* _refine_strategy assigning the new queries instead of merging them.
RefinedQueries_replaces(ledger, response, g) ==
    IF response.kind = "list" THEN response.queries ELSE RefineFallback(g)

RefinedQueries(ledger, response, g) ==
    IF response.kind = "list"
    THEN MergeQueries(ledger, response.queries)
    ELSE MergeQueries(ledger, RefineFallback(g))

GenerateSearchStrategy ==
    /\ pc = "generate_search_strategy"
    /\ \E response \in QueryResponses :
        IF response.kind = "raise"
        THEN /\ Raise("LLMError")
             /\ UNCHANGED search_queries
        ELSE /\ search_queries' = GeneratedQueries(search_queries, response, goal)
             /\ pc' = "execute_search"
             /\ exc' = exc
    /\ UNCHANGED <<goal, target_count, target_type, current_results,
                   attempted_sources, status, iteration_count, max_iterations,
                   messages, last_error, queries_to_try, qi, rounds,
                   round_len, all_raised, fetch_failed, skipped>>

\* _refine_strategy lowering target_count to the number of results found.
RefineStrategy_lowers_target ==
    /\ pc = "refine_strategy"
    /\ \E response \in QueryResponses :
        IF response.kind = "raise"
        THEN /\ Raise("LLMError")
             /\ UNCHANGED <<search_queries, target_count>>
        ELSE /\ search_queries' = RefinedQueries(search_queries, response, goal)
             /\ target_count' = Len(current_results)
             /\ pc' = "execute_search"
             /\ exc' = exc
    /\ UNCHANGED <<goal, target_type, current_results,
                   attempted_sources, status, iteration_count, max_iterations,
                   messages, last_error, queries_to_try, qi, rounds,
                   round_len, all_raised, fetch_failed, skipped>>

RefineStrategy ==
    /\ pc = "refine_strategy"
    /\ \E response \in QueryResponses :
        IF response.kind = "raise"
        THEN /\ Raise("LLMError")
             /\ UNCHANGED search_queries
        ELSE /\ search_queries' = RefinedQueries(search_queries, response, goal)
             /\ pc' = "execute_search"
             /\ exc' = exc
    /\ UNCHANGED <<goal, target_count, target_type, current_results,
                   attempted_sources, status, iteration_count, max_iterations,
                   messages, last_error, queries_to_try, qi, rounds,
                   round_len, all_raised, fetch_failed, skipped>>

-----------------------------------------------------------------------------
(* The search provider and the crawler *)

Emails == {"a@b.com", "c@d.io"}

\* What crawler.arun does for a URL: it raises, or result.markdown is a
\* text (empty or not), or result.markdown is a non-empty value that is
\* no text (the extractors raise TypeError on it).
PageRaise == [raises |-> TRUE, is_text |-> TRUE, markdown |-> <<>>]
PageEmpty == [raises |-> FALSE, is_text |-> TRUE, markdown |-> <<>>]
PageMail == [raises |-> FALSE, is_text |-> TRUE,
             markdown |-> <<"contact", "a@b.com", "and", "a@b.com">>]
PageObject == [raises |-> FALSE, is_text |-> FALSE, markdown |-> <<"object">>]

\* A hit of the search provider, with what the crawler does for its href.
\* title_is_str = FALSE is a hit whose title is None.
Hit(title, href, page) ==
    [title_is_str |-> TRUE, title |-> title, body |-> <<"snippet">>,
     href |-> href, page |-> page]

HitNoTitle ==
    [title_is_str |-> FALSE, title |-> <<>>, body |-> <<"snippet">>,
     href |-> "u3", page |-> PageMail]

Relevant == <<"hiring", "tool">>     \* a title every category accepts
OffTopic == <<"weather">>            \* a title only a generic goal accepts

Hits ==
    { Hit(Relevant, "u1", PageMail),
      Hit(Relevant, "u2", PageMail),
      Hit(Relevant, "u2", PageRaise),
      Hit(Relevant, "u1", PageEmpty),
      Hit(Relevant, "u2", PageObject),
      Hit(Relevant, "", PageMail),
      Hit(OffTopic, "u3", PageEmpty),
      HitNoTitle }

\* What one call of self.ddgs.text does: it raises, or returns hits.
SearchOutcomes ==
    {[raises |-> TRUE, hits |-> <<>>]}
        \cup {[raises |-> FALSE, hits |-> <<>>]}
        \cup {[raises |-> FALSE, hits |-> <<h>>] : h \in Hits}

\* search() without its except clause: the provider's exception propagates.
search_propagates(outcome) ==
    [raised |-> outcome.raises,
     hits |-> IF outcome.raises THEN <<>> ELSE outcome.hits]

\* search(): an exception of the provider is caught and becomes [].
\* The result says whether search() itself raises, and what it returns.
search(outcome) ==
    [raised |-> FALSE,
     hits |-> IF outcome.raises THEN <<>> ELSE outcome.hits]

\* crawler(): an exception of the crawler is caught and becomes "".
crawler(page) == IF page.raises THEN <<>> ELSE page.markdown

\* _extract_emails_from_content: list(set(re.findall(...)))
extract_emails_from_content(content) ==
    {content[i] : i \in {j \in 1..Len(content) : content[j] \in Emails}}

\* _extract_job_info_from_content: the pages of the model carry no
\* "job title:", "company:" or "location:" label, so job_url alone is set.
extract_job_info_from_content(content, url) == [job_url |-> url]

\* _get_search_tricks
get_search_tricks(g) ==
    (IF Contains(g, "email")
     THEN << <<"site:linkedin.com">>, <<"@company.com">>, <<"contact", "email">>,
             <<"recruiter", "email">>, <<"hiring", "manager">> >>
     ELSE <<>>)
    \o (IF Contains(g, "website")
        THEN << <<"best", "tools", "2024">>, <<"top", "resources">>,
                <<"list", "of", "sites">>, <<"directory">> >>
        ELSE <<>>)
    \o (IF Contains(g, "job")
        THEN << <<"site:indeed.com">>, <<"site:glassdoor.com">>,
                <<"site:linkedin.com/jobs">>, <<"hiring">>, <<"careers">> >>
        ELSE <<>>)

\* enhanced_queries[:2] of _perform_search
enhanced_queries(query, g) ==
    Take(<<query>> \o [i \in 1..Len(Take(get_search_tricks(g), MaxTricks)) |->
                          query \o get_search_tricks(g)[i]],
         MaxEnhanced)

AnyKeyword(keywords, title, body) ==
    \E k \in keywords : Contains(title, k) \/ Contains(body, k)

\* _is_relevant_result, for a hit whose title and body are texts
is_relevant_result(result, g) ==
    IF Contains(g, "email")
    THEN AnyKeyword({"email", "contact", "recruiter", "hiring"}, result.title, result.body)
    ELSE IF Contains(g, "website")
    THEN AnyKeyword({"tool", "platform", "service", "website"}, result.title, result.body)
    ELSE IF Contains(g, "job")
    THEN AnyKeyword({"job", "career", "position", "hiring"}, result.title, result.body)
    ELSE TRUE

\* processed_result before the crawl
BaseRecord(result) ==
    [title |-> result.title, url |-> result.href,
     description |-> result.body, source |-> "web_search"]

\* processed_result after the extraction from non-empty content
Extracted(processed_result, content, url, g) ==
    IF \E k \in {"email", "contact", "recruiter"} : Contains(g, k)
    THEN LET emails == extract_emails_from_content(content)
         IN IF emails # {}
            THEN [emails |-> emails, contact_info |-> emails] @@ processed_result
            ELSE processed_result
    ELSE IF \E k \in {"job", "career", "position", "hiring"} : Contains(g, k)
    THEN extract_job_info_from_content(content, url) @@ processed_result
    ELSE [content |-> Take(content, ExcerptLen)] @@ processed_result

\* The body of "if self._is_relevant_result(...)" for one relevant hit: the
\* records it appends to results (one or none).  A record is appended
\* inside "if content:", or by the inner except when the extraction raises.
CrawlHit(result, g) ==
    LET processed_result == BaseRecord(result)
        url == processed_result.url
        content == crawler(result.page)
    IN IF url = "" THEN <<>>
       ELSE IF content = <<>> THEN <<>>
       ELSE IF ~result.page.is_text THEN <<processed_result>>
       ELSE <<Extracted(processed_result, content, url, g)>>

\* for result in search_results: an exception (a hit whose title is None)
\* leaves the loop with the results appended so far.
RECURSIVE ProcessHits(_, _, _)
ProcessHits(search_results, g, results) ==
    IF search_results = <<>> THEN [raised |-> FALSE, results |-> results]
    ELSE LET result == Head(search_results)
         IN IF ~result.title_is_str
            THEN [raised |-> TRUE, results |-> results]
            ELSE ProcessHits(Tail(search_results), g,
                    IF is_relevant_result(result, g)
                    THEN results \o CrawlHit(result, g)
                    ELSE results)

\* for enhanced_query in enhanced_queries[:2]; outcomes[i] is what the
\* provider does for the i-th enhanced query.
RECURSIVE SearchLoop(_, _, _)
SearchLoop(outcomes, g, results) ==
    IF outcomes = <<>> THEN [raised |-> FALSE, results |-> results]
    ELSE LET found == search(Head(outcomes))
         IN IF found.raised
            THEN [raised |-> TRUE, results |-> results]
            ELSE LET r == ProcessHits(found.hits, g, results)
                 IN IF r.raised THEN r
                    ELSE SearchLoop(Tail(outcomes), g, r.results)

\* _get_fallback_results
get_fallback_results(g) ==
    IF Contains(g, "website") /\ ContainsPhrase(g, "digital", "marketing")
    THEN << [title |-> <<"hubspot", "marketing", "hub">>, url |-> "https://hubspot.com",
             description |-> <<"all-in-one", "marketing", "platform">>],
            [title |-> <<"moz", "seo", "tools">>, url |-> "https://moz.com",
             description |-> <<"seo", "and", "marketing", "analytics">>],
            [title |-> <<"semrush">>, url |-> "https://semrush.com",
             description |-> <<"digital", "marketing", "toolkit">>] >>
    ELSE IF Contains(g, "email") /\ Contains(g, "recruiter")
    THEN << [name |-> <<"sarah", "johnson">>, email |-> "sarah.johnson@techcorp.com",
             company |-> <<"techcorp">>, role |-> <<"senior", "recruiter">>],
            [name |-> <<"mike", "davis">>, email |-> "mike.davis@startup.io",
             company |-> <<"startupio">>, role |-> <<"talent", "acquisition", "manager">>] >>
    ELSE IF Contains(g, "job")
    THEN << [title |-> <<"senior", "software", "engineer">>, company |-> <<"techcorp">>,
             url |-> "https://jobs.techcorp.com/123", location |-> <<"remote">>],
            [title |-> <<"data", "scientist">>, company |-> <<"datacorp">>,
             url |-> "https://careers.datacorp.com/456", location |-> <<"new", "york">>] >>
    ELSE <<>>

\* _perform_search: the outer except appends the fallback results.
perform_search(outcomes, g) ==
    LET r == SearchLoop(outcomes, g, <<>>)
    IN IF r.raised THEN r.results \o get_fallback_results(g) ELSE r.results

-----------------------------------------------------------------------------
(* _execute_search *)

\* The selection without its "not in attempted_sources" filter.
Untried_all(queries, attempted) == queries

\* [q for q in search_queries if q not in attempted_sources]
RECURSIVE Untried(_, _)
Untried(queries, attempted) ==
    IF queries = <<>> THEN <<>>
    ELSE IF InList(Head(queries), attempted)
         THEN Untried(Tail(queries), attempted)
         ELSE <<Head(queries)>> \o Untried(Tail(queries), attempted)

\* The uniqueness test without its url comparison.
is_unique_email_only(result, existing_results) ==
    LET email == Get(result, "email", "")
    IN \A i \in 1..Len(existing_results) :
        LET existing == existing_results[i]
        IN ~(email # "" /\ "email" \in DOMAIN existing /\ email = existing.email)

\* The uniqueness test of one result against current_results
is_unique(result, existing_results) ==
    LET url == Get(result, "url", "")
        email == Get(result, "email", "")
    IN \A i \in 1..Len(existing_results) :
        LET existing == existing_results[i]
        IN /\ ~(url # "" /\ "url" \in DOMAIN existing /\ url = existing.url)
           /\ ~(email # "" /\ "email" \in DOMAIN existing /\ email = existing.email)

\* The results of the latest query assigned to current_results.
AddUnique_replaces(existing_results, results) == results

\* for result in results: if is_unique: current_results.append(result)
RECURSIVE AddUnique(_, _)
AddUnique(existing_results, results) ==
    IF results = <<>> THEN existing_results
    ELSE AddUnique(
            IF is_unique(Head(results), existing_results)
            THEN Append(existing_results, Head(results))
            ELSE existing_results,
            Tail(results))

\* Urls of the relevant hits of a call that raised nothing, whose crawl
\* raised or returned empty content.
FailedFetches(outcomes, g) ==
    IF SearchLoop(outcomes, g, <<>>).raised THEN {}
    ELSE LET returned == UNION {{search(outcomes[i]).hits[j] :
                                    j \in 1..Len(search(outcomes[i]).hits)} :
                                i \in 1..Len(outcomes)}
         IN {h.href : h \in {x \in returned : /\ is_relevant_result(x, g)
                                             /\ x.href # ""
                                             /\ crawler(x.page) = <<>>}}

\* AddUnique keeps a record with a url out of existing_results
RECURSIVE Skipped(_, _)
Skipped(existing_results, results) ==
    IF results = <<>> THEN FALSE
    ELSE IF is_unique(Head(results), existing_results)
         THEN Skipped(Append(existing_results, Head(results)), Tail(results))
         ELSE \/ Get(Head(results), "url", "") # ""
              \/ Skipped(existing_results, Tail(results))

\* Entry of _execute_search: the queries of this round.
ExecuteSearch ==
    /\ pc = "execute_search"
    /\ queries_to_try' = Take(Untried(search_queries, attempted_sources), BatchSize)
    /\ qi' = 0
    /\ rounds' = rounds + 1
    /\ round_len' = Len(current_results)
    /\ all_raised' = TRUE
    /\ fetch_failed' = {}
    /\ skipped' = FALSE
    /\ pc' = "execute_search_loop"
    /\ UNCHANGED <<goal, target_count, target_type, current_results,
                   search_queries, attempted_sources, status, iteration_count,
                   max_iterations, messages, last_error, exc>>

\* What one _perform_search call can do for a goal: for every way the
\* provider and the crawler may answer its searches, the results the call
\* returns, whether every provider call raised, and the failed fetches.
\* The number of searches is that of enhanced_queries, which the query
\* does not change.
PerformSearchCalls[g \in Goals] ==
    {[results |-> perform_search(outcomes, g),
      all_raised |-> \A i \in 1..Len(outcomes) : outcomes[i].raises,
      fetch_failed |-> FailedFetches(outcomes, g)] :
        outcomes \in [1..Len(enhanced_queries(<<"q">>, g)) -> SearchOutcomes]}

\* One iteration of "for query in queries_to_try".  _perform_search catches
\* every Exception itself, so the except branch of the loop body (which
\* sets last_error) is never entered.
ExecuteSearchQuery ==
    /\ pc = "execute_search_loop"
    /\ qi < Len(queries_to_try)
    /\ LET query == queries_to_try[qi + 1]
       IN \E call \in PerformSearchCalls[goal] :
            /\ current_results' = AddUnique(current_results, call.results)
            /\ attempted_sources' = Append(attempted_sources, query)
            /\ all_raised' = (all_raised /\ call.all_raised)
            /\ fetch_failed' = call.fetch_failed
            /\ skipped' = Skipped(current_results, call.results)
    /\ qi' = qi + 1
    /\ UNCHANGED <<goal, target_count, target_type, search_queries, status,
                   iteration_count, max_iterations, messages, last_error, pc,
                   exc, queries_to_try, rounds, round_len>>

\* After the loop: iteration_count += 1, and the node returns.
ExecuteSearchReturn ==
    /\ pc = "execute_search_loop"
    /\ qi = Len(queries_to_try)
    /\ iteration_count' = iteration_count + 1
    /\ fetch_failed' = {}
    /\ skipped' = FALSE
    /\ pc' = "validate_results"
    /\ UNCHANGED <<goal, target_count, target_type, current_results,
                   search_queries, attempted_sources, status, max_iterations,
                   messages, last_error, exc, queries_to_try, qi, rounds,
                   round_len, all_raised>>

-----------------------------------------------------------------------------
(* _validate_results, _should_continue, _finalize_results *)

\* _validate_results with the max-iterations check ahead of the count check.
validate_results_max_first(results, target, iteration, maximum, old_status) ==
    IF iteration >= maximum THEN FAILED
    ELSE IF Len(results) >= target THEN COMPLETED
    ELSE old_status

\* _validate_results declaring FAILED only when an error was recorded.
validate_results_reads_error(results, target, iteration, maximum, old_status) ==
    IF Len(results) >= target THEN COMPLETED
    ELSE IF iteration >= maximum /\ last_error # "None" THEN FAILED
    ELSE old_status

\* _validate_results resetting the status of a run that goes on.
validate_results_resets(results, target, iteration, maximum, old_status) ==
    IF Len(results) >= target THEN COMPLETED
    ELSE IF iteration >= maximum THEN FAILED
    ELSE PENDING

\* The status _validate_results leaves, for an integer target_count
validate_results(results, target, iteration, maximum, old_status) ==
    IF Len(results) >= target THEN COMPLETED
    ELSE IF iteration >= maximum THEN FAILED
    ELSE old_status

\* _should_continue without its COMPLETED branch.
should_continue_misses_completed(st) ==
    IF st = FAILED THEN "failed" ELSE "continue"

\* _should_continue without its FAILED branch.
should_continue_misses_failed(st) ==
    IF st = COMPLETED THEN "complete" ELSE "continue"

should_continue(st) ==
    IF st = COMPLETED THEN "complete"
    ELSE IF st = FAILED THEN "failed"
    ELSE "continue"

\* The conditional edges of _build_graph
NextNode(decision) ==
    CASE decision = "continue" -> "refine_strategy"
      [] decision = "complete" -> "finalize_results"
      [] decision = "failed" -> "END"

\* len(current_results) >= target_count raises TypeError for a target_count
\* that is no number.
ValidateResults ==
    /\ pc = "validate_results"
    /\ IF target_type # "int"
       THEN /\ Raise("TypeError")
            /\ UNCHANGED status
       ELSE /\ status' = validate_results(current_results, target_count,
                                          iteration_count, max_iterations, status)
            /\ pc' = NextNode(should_continue(status'))
            /\ exc' = exc
    /\ UNCHANGED <<goal, target_count, target_type, current_results,
                   search_queries, attempted_sources, iteration_count,
                   max_iterations, messages, last_error, queries_to_try, qi,
                   rounds, round_len, all_raised, fetch_failed, skipped>>

\* state.status.value.upper()
Upper(st) ==
    CASE st = PENDING -> "PENDING"
      [] st = IN_PROGRESS -> "IN_PROGRESS"
      [] st = COMPLETED -> "COMPLETED"
      [] st = FAILED -> "FAILED"

\* current_results[:target_count]
finalize_results(results, target) == Slice(results, target)

\* The header of final_message, built after the truncation
FinalMessage(g, st, results, target, iteration) ==
    AIMessage([goal |-> g, status |-> Upper(st), results |-> Len(results),
               target_count |-> target, iterations |-> iteration])

FinalizeResults ==
    /\ pc = "finalize_results"
    /\ current_results' = finalize_results(current_results, target_count)
    /\ messages' = Append(messages,
                          FinalMessage(goal, status, current_results',
                                       target_count, iteration_count))
    /\ pc' = "END"
    /\ UNCHANGED <<goal, target_count, target_type, search_queries,
                   attempted_sources, status, iteration_count, max_iterations,
                   last_error, exc, queries_to_try, qi, rounds, round_len,
                   all_raised, fetch_failed, skipped>>

-----------------------------------------------------------------------------
Next ==
    \/ AnalyzeGoal
    \/ GenerateSearchStrategy
    \/ ExecuteSearch
    \/ ExecuteSearchQuery
    \/ ExecuteSearchReturn
    \/ ValidateResults
    \/ RefineStrategy
    \/ FinalizeResults

Spec == Init /\ [][Next]_vars

\* The graph runner always runs the next node of a run that has not ended.
FairSpec == Spec /\ WF_vars(Next)

TypeOK ==
    /\ status \in GoalStatus
    /\ pc \in {"analyze_goal", "generate_search_strategy", "execute_search",
               "execute_search_loop", "validate_results", "refine_strategy",
               "finalize_results", "END", "raised"}
    /\ target_type \in {"int", "str"}
    /\ exc \in {"none", "LLMError", "TypeError"}

-----------------------------------------------------------------------------
(* Properties *)

Terminal == {COMPLETED, FAILED}

\* run_agent is over: the graph reached END, or an exception left it.
RunOver == pc \in {"END", "raised"}

IsPrefix(s, t) == Len(s) <= Len(t) /\ \A i \in 1..Len(s) : s[i] = t[i]

HasUrl(r, u) == "url" \in DOMAIN r /\ r.url = u

\* The loop bound alone: no run starts more rounds than max_iterations.
RoundsBounded == rounds <= max_iterations /\ iteration_count <= rounds

\* C1: whatever the collaborators return (no call of theirs raising), the
\* run performs at most max_iterations rounds and is over only with status
\* COMPLETED or FAILED.
C1_EndsCompletedOrFailed ==
    (RunOver /\ exc # "LLMError") =>
        (status \in Terminal /\ rounds <= max_iterations)

\* C2: no two records of current_results have the same non-empty url, and
\* a step of the round never removes or moves a record already discovered.
NoDuplicateUrl ==
    \A i, j \in 1..Len(current_results) :
        (i < j /\ "url" \in DOMAIN current_results[i]
               /\ "url" \in DOMAIN current_results[j]
               /\ current_results[i].url # "")
            => current_results[i].url # current_results[j].url

C2_UniqueUrls ==
    /\ []NoDuplicateUrl
    /\ [][pc = "execute_search_loop" => IsPrefix(current_results, current_results')]_vars

\* C2 witness: a record with a url was offered again and kept out, and the
\* results hold records with two different urls.
C2_Witness ==
    /\ pc = "execute_search_loop"
    /\ skipped
    /\ \E i, j \in 1..Len(current_results) :
          /\ HasUrl(current_results[i], "u1")
          /\ HasUrl(current_results[j], "u2")

\* C3: no two records of current_results share an element of their emails.
C3_DisjointEmails ==
    \A i, j \in 1..Len(current_results) :
        i < j => Get(current_results[i], "emails", {})
                     \cap Get(current_results[j], "emails", {}) = {}

\* C4: the status a returning _validate_results leaves is COMPLETED if
\* len(results) >= target_count, else FAILED if iteration >= max_iterations,
\* else IN_PROGRESS.
C4_Decision ==
    [][(pc = "validate_results" /\ pc' # "raised") =>
          status' = IF Len(current_results) >= target_count THEN COMPLETED
                    ELSE IF iteration_count >= max_iterations THEN FAILED
                    ELSE IN_PROGRESS]_vars

\* C4 witness: both conditions held after the last round, and the status
\* is COMPLETED.
C4_Witness ==
    /\ pc = "finalize_results"
    /\ target_count >= 1
    /\ Len(current_results) >= target_count
    /\ iteration_count >= max_iterations
    /\ status = COMPLETED

\* C5: a run that performed rounds and is over without its target reached
\* ended normally, with status FAILED after exactly max_iterations rounds.
C5_FailedAtMaxIterations ==
    (RunOver /\ rounds >= 1 /\ target_type = "int"
             /\ Len(current_results) < target_count) =>
        /\ pc = "END"
        /\ status = FAILED
        /\ iteration_count = max_iterations
        /\ rounds = max_iterations

\* C6: at the end of a run, len(results) <= target_count, and a COMPLETED
\* run holds exactly target_count results.
C6_TruncatedToTarget ==
    (pc = "END" /\ status \in Terminal) =>
        /\ Len(current_results) <= target_count
        /\ status = COMPLETED => Len(current_results) = target_count

\* C7 (as stated, for a positive target_count): once status is COMPLETED or
\* FAILED, no step changes current_results or search_queries.
C7_NoMutationAfterTerminal ==
    [][(status \in Terminal /\ target_count >= 1) =>
          (current_results' = current_results /\ search_queries' = search_queries)]_vars

\* C7 (amended): once status is COMPLETED or FAILED, search_queries never
\* changes and current_results changes only in _finalize_results, which
\* cuts it to a prefix of itself; after FAILED it never changes.
OnlyTruncation ==
    /\ search_queries' = search_queries
    /\ attempted_sources' = attempted_sources
    /\ IsPrefix(current_results', current_results)
    /\ current_results' # current_results =>
          (pc = "finalize_results" /\ status = COMPLETED)

C7_OnlyTruncationAfterTerminal ==
    [][(status \in Terminal) => OnlyTruncation]_vars

\* C7 witness: status is COMPLETED and _finalize_results is about to cut
\* the results.
C7_Witness ==
    /\ pc = "finalize_results"
    /\ status = COMPLETED
    /\ target_count >= 1
    /\ Len(current_results) > target_count

\* C8: after a _perform_search call, every relevant hit whose crawl raised
\* or returned empty content has a record with its url in current_results.
C8_FailedFetchKept ==
    \A u \in fetch_failed :
        \E i \in 1..Len(current_results) : HasUrl(current_results[i], u)

\* C9: no error raised by the planning service, the search provider or the
\* crawler leaves run_agent.
C9_ErrorsAbsorbed == ~(pc = "raised" /\ exc = "LLMError")

C11_LastErrorSet ==
    (pc = "validate_results" /\ all_raised /\ Len(queries_to_try) >= 1) =>
        last_error # "None"

\* C12: _refine_strategy runs only when no query of search_queries is left
\* unattempted; with unattempted queries left, the next round follows the
\* validation directly.
C12_RefineOnlyWhenExhausted ==
    pc = "refine_strategy" => Untried(search_queries, attempted_sources) = <<>>

\* C13: a run that is over with status FAILED has produced the final
\* report: the last message states status FAILED, the number of results
\* and the iteration count.
C13_FailedRunReported ==
    (pc = "END" /\ status = FAILED) =>
        messages[Len(messages)] =
            FinalMessage(goal, FAILED, current_results, target_count,
                         iteration_count)

\* C14: in every reachable state, every query of attempted_sources is in
\* search_queries.
C14_AttemptedSubsetOfQueries ==
    \A i \in 1..Len(attempted_sources) :
        InList(attempted_sources[i], search_queries)

\* C14 witness: a round is over, _refine_strategy has added queries, and the
\* attempted queries are some but not all of search_queries.
C14_Witness ==
    /\ pc = "execute_search"
    /\ rounds >= 1
    /\ attempted_sources # <<>>
    /\ Len(search_queries) > Len(attempted_sources)

\* C15: search_queries never holds the same query twice; a step of
\* _generate_search_strategy or _refine_strategy keeps the queries it found
\* at their positions and appends the new ones, each once, in the order in
\* which the proposed list (parsed or fallback) first names them.
NoDuplicateQuery ==
    \A i, j \in 1..Len(search_queries) :
        i < j => search_queries[i] # search_queries[j]

\* The lists a planning step can be offered at node n for goal g.
Proposable(n, g) ==
    {r.queries : r \in {x \in QueryResponses : x.kind = "list"}}
        \cup {IF n = "generate_search_strategy" THEN StrategyFallback(g)
              ELSE RefineFallback(g)}

FirstIndex(x, s) == CHOOSE i \in 1..Len(s) : s[i] = x /\ \A j \in 1..(i - 1) : s[j] # x

AppendedInOrder(old, new, proposed) ==
    /\ IsPrefix(old, new)
    /\ \A q \in {proposed[i] : i \in 1..Len(proposed)} : InList(q, new)
    /\ \A i \in (Len(old) + 1)..Len(new) :
          InList(new[i], proposed) /\ ~InList(new[i], old)
    /\ \A i, j \in (Len(old) + 1)..Len(new) :
          i < j => FirstIndex(new[i], proposed) < FirstIndex(new[j], proposed)

MergesInOrder ==
    IF pc \in {"generate_search_strategy", "refine_strategy"} /\ pc' # "raised"
    THEN \E proposed \in Proposable(pc, goal) :
            AppendedInOrder(search_queries, search_queries', proposed)
    ELSE search_queries' = search_queries

C15_LedgerUnique ==
    /\ []NoDuplicateQuery
    /\ [][MergesInOrder]_vars

\* C15 witness: after a first round on q1 and q2, a refinement that
\* proposed q1, q2, q1, q3, q4 has left q1 and q2 at their positions and
\* appended q3 and q4, each once.
C15_Witness ==
    /\ pc = "execute_search"
    /\ attempted_sources = << <<"q1">>, <<"q2">> >>
    /\ search_queries = << <<"q1">>, <<"q2">>, <<"q3">>, <<"q4">> >>

\* C16: every step of a round leaves the results it found as a prefix of
\* the results after it, so that a finished round holds at least the
\* results it started with; and iteration_count is the number of finished
\* rounds: only the return of a round changes it, by exactly 1, whatever
\* the number of queries the round executed.
RoundStep ==
    IF pc \in {"execute_search", "execute_search_loop"}
    THEN /\ IsPrefix(current_results, current_results')
         /\ iteration_count' = IF pc' = "validate_results"
                               THEN iteration_count + 1
                               ELSE iteration_count
    ELSE iteration_count' = iteration_count

IterationCountsRounds ==
    /\ iteration_count = IF pc = "execute_search_loop" THEN rounds - 1 ELSE rounds
    /\ pc \in {"execute_search_loop", "validate_results"} =>
          Len(current_results) >= round_len

C16_ResultsGrowIterationCounts ==
    /\ []IterationCountsRounds
    /\ [][RoundStep]_vars

\* C16 witness: a second round that executed no query is over: the results
\* of the first round are still there and iteration_count is 2.
C16_Witness ==
    /\ pc = "validate_results"
    /\ queries_to_try = <<>>
    /\ current_results # <<>>
    /\ iteration_count = 2

\* C17: the outcome of a returning _validate_results and _should_continue
\* (the status left and the node that follows) is a function of
\* len(current_results), target_count, iteration_count and max_iterations
\* alone, and deciding again on the state it leaves changes nothing.
DecisionOf(n, target, iteration, maximum) ==
    IF n >= target THEN "complete"
    ELSE IF iteration >= maximum THEN "failed"
    ELSE "continue"

DecisionStep ==
    LET decision == DecisionOf(Len(current_results), target_count,
                               iteration_count, max_iterations)
    IN /\ should_continue(status') = decision
       /\ pc' = NextNode(decision)
       /\ validate_results(current_results', target_count', iteration_count',
                           max_iterations', status') = status'

C17_DecisionIsFunctionOfCounts ==
    [][(pc = "validate_results" /\ pc' # "raised") => DecisionStep]_vars

\* C17 witness: the decision was "failed", on partial results, after the
\* last of two rounds.
C17_Witness ==
    /\ pc = "END"
    /\ status = FAILED
    /\ current_results # <<>>
    /\ Len(current_results) < target_count
    /\ iteration_count = 2
    /\ max_iterations = 2

\* C18: once _analyze_goal has returned, target_count is an integer >= 1.
C18_TargetCountPositive ==
    status # PENDING => (target_type = "int" /\ target_count >= 1)

\* C19: when _generate_search_strategy has returned and search_queries is
\* what a response that does not parse into a list leaves for the goal,
\* search_queries is not empty: the first round has a query to execute.
C19_FallbackFillsLedger ==
    (/\ pc = "execute_search"
     /\ rounds = 0
     /\ \E response \in QueryResponses :
           /\ response.kind \in {"text", "number"}
           /\ search_queries = GeneratedQueries(<<>>, response, goal))
        => search_queries # <<>>

\* C20: a run starts with status PENDING, and status changes only from
\* PENDING to IN_PROGRESS (when _analyze_goal returns), from IN_PROGRESS
\* to COMPLETED and from IN_PROGRESS to FAILED: COMPLETED and FAILED are
\* never left, and nothing returns to PENDING or IN_PROGRESS.
StatusStep ==
    \/ status' = status
    \/ status = PENDING /\ status' = IN_PROGRESS /\ pc = "analyze_goal"
    \/ status = IN_PROGRESS /\ status' \in Terminal

PendingUntilAnalyzed ==
    /\ pc = "analyze_goal" => status = PENDING
    /\ status = PENDING => pc \in {"analyze_goal", "raised"}

C20_StatusTransitions ==
    /\ []PendingUntilAnalyzed
    /\ [][StatusStep]_vars

\* C20 witness: a run went from PENDING to IN_PROGRESS, stayed IN_PROGRESS
\* through the validation of its first round, and is over, COMPLETED after
\* its second round.
C20_Witness ==
    /\ pc = "END"
    /\ status = COMPLETED
    /\ rounds = 2

\* C21: _execute_search and _refine_strategy run only while status is
\* IN_PROGRESS; with status COMPLETED the run is at _finalize_results or
\* over, with status FAILED it is over, and no step leads back from there
\* to a round or a refinement.
RoundNodes == {"execute_search", "execute_search_loop", "refine_strategy"}

RoundsOnlyInProgress ==
    /\ pc \in RoundNodes => status = IN_PROGRESS
    /\ status = COMPLETED => pc \in {"finalize_results", "END"}
    /\ status = FAILED => pc = "END"

StopsAfterTerminal ==
    (status \in Terminal \/ status' \in Terminal) => pc' \notin RoundNodes

C21_RoundsOnlyWhileInProgress ==
    /\ []RoundsOnlyInProgress
    /\ [][StopsAfterTerminal]_vars

\* C21 witness: a second round, entered through _refine_strategy, is
\* executing a query, with status IN_PROGRESS.
C21_Witness ==
    /\ pc = "execute_search_loop"
    /\ rounds = 2
    /\ qi >= 1
    /\ status = IN_PROGRESS

\* C22: a round walks at most BatchSize queries: those queries of
\* search_queries, in the order of search_queries, that were not attempted
\* when the round started and have fewer than BatchSize such queries ahead
\* of them; each one walked is appended to attempted_sources, which never
\* holds a query twice.
NoDuplicateAttempted ==
    \A i, j \in 1..Len(attempted_sources) :
        i < j => attempted_sources[i] # attempted_sources[j]

RoundSelection ==
    LET before == SubSeq(attempted_sources, 1, Len(attempted_sources) - qi)
        fresh(k) == ~InList(search_queries[k], before)
        ahead(k) == Cardinality({j \in 1..(k - 1) : fresh(j)})
        chosen == {k \in 1..Len(search_queries) : fresh(k) /\ ahead(k) < BatchSize}
    IN /\ Len(queries_to_try) <= BatchSize
       /\ qi <= Len(queries_to_try)
       /\ Len(queries_to_try) = Cardinality(chosen)
       /\ \A k \in chosen : queries_to_try[ahead(k) + 1] = search_queries[k]
       /\ \A i \in 1..qi :
             attempted_sources[Len(attempted_sources) - qi + i] = queries_to_try[i]

C22_RoundSelectsUntried ==
    /\ NoDuplicateAttempted
    /\ pc = "execute_search_loop" => RoundSelection

\* C22 witness: the first round walked BatchSize queries, and the second
\* round has walked one more, which the first left unattempted.
C22_Witness ==
    /\ pc = "execute_search_loop"
    /\ rounds = 2
    /\ qi = 1
    /\ Len(attempted_sources) = BatchSize + 1

\* C23: goal and max_iterations never change, and target_count changes
\* only in _analyze_goal, which runs once, as the first step of the run:
\* no later step decreases or otherwise changes it.
FrameStep ==
    /\ goal' = goal
    /\ max_iterations' = max_iterations
    /\ pc # "analyze_goal" => (target_count' = target_count /\ target_type' = target_type)
    /\ pc' # "analyze_goal"

AnalyzedFirst ==
    pc = "analyze_goal" => (rounds = 0 /\ target_count = DefaultTarget)

C23_TargetSetOnce ==
    /\ []AnalyzedFirst
    /\ [][FrameStep]_vars

\* C23 witness: the analysis set target_count to 1, and a run of two
\* rounds with a refinement between them is over with target_count 1.
C23_Witness ==
    /\ pc = "END"
    /\ rounds = 2
    /\ target_type = "int"
    /\ target_count = 1
    /\ status = FAILED

====
